---- MODULE Spec2Model ----
(***************************************************************************)
(* A model of erizocosmico/mig: the registry of migrations, the version    *)
(* table, and the executor operations Up, Down and ToVersion of mig.go.     *)
(*                                                                         *)
(* File names are sequences of one-character strings.  The database is a   *)
(* record: whether the version table exists, the rows of the version table *)
(* in insertion order, and the rows the migration functions have written   *)
(* (the migrations_run table of mig_test.go).                              *)
(***************************************************************************)
EXTENDS Integers, Sequences, FiniteSets, TLC

VARIABLES
    migrations,   \* var migrations []migration (mig.go:18), registration order
    phase,        \* "init": package init() functions run; "main"; "panic"
    lastRegister, \* the last Register call: its arguments, whether it panicked
    dir,          \* the names of the files in the migrations directory
    lastCreate,   \* the last Create call: its argument, what it returned
    arg,          \* the name versionFromFile is given
    parsed,       \* what versionFromFile returned for it
    db,           \* the database the calls are made against
    now,          \* time.Now().Unix(), in seconds since the first call
    ncalls,       \* the number of Up/Down/ToVersion calls made so far
    last,         \* the last of them: its arguments, its results, what it did
    prev,         \* the call before the last
    runners       \* the Up calls that run at the same time, each where it is

vars == <<migrations, phase, lastRegister, dir, lastCreate, arg, parsed,
          db, now, ncalls, last, prev, runners>>

----------------------------------------------------------------------------
(* Bounds of the model. *)

MaxMigrations == 3     \* steps registered at most
MaxCalls == 1          \* Up/Down/ToVersion calls at most

(* math.MaxInt64, the target Up passes to upTo.  TLC's integers are 32 bits *)
(* wide; every version of the model is far below either number.            *)
MaxInt64 == 2147483647

----------------------------------------------------------------------------
(* Strings. *)

Digits == <<"0", "1", "2", "3", "4", "5", "6", "7", "8", "9">>

IsDigit(c) == \E d \in 1..10 : Digits[d] = c

DigitVal(c) == (CHOOSE d \in 1..10 : Digits[d] = c) - 1

RECURSIVE Atoi(_)
Atoi(s) ==
    IF s = <<>> THEN 0
    ELSE 10 * Atoi(SubSeq(s, 1, Len(s) - 1)) + DigitVal(s[Len(s)])

(* strconv.ParseInt(s, 10, 64): an optional sign, then one or more decimal *)
(* digits.  (The range error needs 19 digits, more than the names here.)   *)
ParseInt(s) ==
    LET signed == s # <<>> /\ s[1] \in {"+", "-"}
        body   == IF signed THEN Tail(s) ELSE s
    IN  IF body = <<>> \/ \E i \in 1..Len(body) : ~IsDigit(body[i])
        THEN [ok |-> FALSE, v |-> 0]
        ELSE [ok |-> TRUE,
              v  |-> IF signed /\ s[1] = "-" THEN 0 - Atoi(body) ELSE Atoi(body)]

HasSuffix(s, suffix) ==
    /\ Len(s) >= Len(suffix)
    /\ SubSeq(s, Len(s) - Len(suffix) + 1, Len(s)) = suffix

(* strings.IndexRune, 0-based, -1 when the rune is absent. *)
IndexRune(s, c) ==
    IF \E i \in 1..Len(s) : s[i] = c
    THEN (CHOOSE i \in 1..Len(s) : s[i] = c /\ \A j \in 1..(i - 1) : s[j] # c) - 1
    ELSE -1

(* filepath.Base of a non-empty path that does not end in a separator. *)
Base(path) ==
    IF \E i \in 1..Len(path) : path[i] = "/"
    THEN LET sep == CHOOSE i \in 1..Len(path) :
                       path[i] = "/" /\ \A j \in (i + 1)..Len(path) : path[j] # "/"
         IN  SubSeq(path, sep + 1, Len(path))
    ELSE path

(* A faulty variant of versionFromFile: the extension is not looked at. *)
versionFromFile_anyExtension(file) ==
    LET idx == IndexRune(file, "_")
        p   == ParseInt(SubSeq(file, 1, idx))
    IN  IF idx >= 0 /\ p.ok
        THEN [ok |-> TRUE, v |-> p.v]
        ELSE [ok |-> FALSE, v |-> 0]

versionFromFile(file) ==
    IF ~HasSuffix(file, <<".", "g", "o">>)
    THEN [ok |-> FALSE, v |-> 0]
    ELSE LET idx == IndexRune(file, "_")
             p   == ParseInt(SubSeq(file, 1, idx))
         IN  IF idx >= 0 /\ p.ok
             THEN [ok |-> TRUE, v |-> p.v]
             ELSE [ok |-> FALSE, v |-> 0]

----------------------------------------------------------------------------
(* The registry. *)

NilFunc == "nil"
SomeFunc == "func"

(* The files whose init() calls Register. *)
CallerFiles ==
    { <<"0", "_", "a", ".", "g", "o">>,
      <<"m", "/", "1", "_", "a", ".", "g", "o">>,
      <<"0", "3", "_", "a", ".", "g", "o">>,
      <<"-", "1", "_", "a", ".", "g", "o">>,
      <<"a", ".", "g", "o">>,
      <<"1", "_", "a", ".", "s", "q", "l">> }

(* The files of a package whose authors number their files in every way   *)
(* strconv.ParseInt reads.                                                 *)
RegisterFiles ==
    CallerFiles \cup
    { <<"+", "1", "_", "a", ".", "g", "o">>,
      <<"-", "0", "_", "a", ".", "g", "o">>,
      <<"0", "1", "_", "b", ".", "g", "o">> }

----------------------------------------------------------------------------
(* versionFromFile on its own. *)

MaxNumberLen == 3      \* characters before the ending of a name, at most

(* The names versionFromFile is given: a beginning of digits, signs,       *)
(* underscores and letters, and an ending.                                 *)
FileNames ==
    LET Alphabet   == {"0", "1", "7", "+", "-", "_", "a"}
        Beginnings == UNION {[1..k -> Alphabet] : k \in 0..MaxNumberLen}
        Endings    == { <<>>, <<".", "g", "o">>, <<"_", "a", ".", "g", "o">>,
                        <<"_", "a", ".", "s", "q", "l">>, <<"_", "a", "_", "1", ".", "g", "o">> }
    IN  {b \o e : b \in Beginnings, e \in Endings}

(* versionFromFile(file) is called and returns. *)
ParseFile ==
    /\ ~parsed.called
    /\ parsed' = [called |-> TRUE, ok |-> versionFromFile(arg).ok,
                  v |-> versionFromFile(arg).v]
    /\ UNCHANGED <<migrations, phase, lastRegister, dir, lastCreate, arg,
                   db, now, ncalls, last, prev, runners>>

----------------------------------------------------------------------------
(* A faulty variant of Register: a version already registered is accepted. *)
RegisterPanics_noDuplicateCheck(up, down, caller) ==
    LET file == Base(caller)
        r    == versionFromFile(file)
    IN  \/ up = NilFunc
        \/ down = NilFunc
        \/ ~r.ok
        \/ r.v < 0

(* A faulty variant of Register: nil functions are accepted. *)
RegisterPanics_noNilCheck(up, down, caller) ==
    LET file == Base(caller)
        r    == versionFromFile(file)
    IN  \/ ~r.ok
        \/ r.v < 0
        \/ \E i \in 1..Len(migrations) : migrations[i].version = r.v

(* The conditions under which Register panics. *)
RegisterPanics(up, down, caller) ==
    LET file == Base(caller)
        r    == versionFromFile(file)
    IN  \/ up = NilFunc
        \/ down = NilFunc
        \/ ~r.ok
        \/ r.v < 0
        \/ \E i \in 1..Len(migrations) : migrations[i].version = r.v

NoRegister == [up |-> NilFunc, down |-> NilFunc, caller |-> <<>>, before |-> <<>>,
               called |-> FALSE, panicked |-> FALSE]

Register(up, down, caller) ==
    /\ phase = "init"
    /\ Len(migrations) < MaxMigrations
    /\ lastRegister' = [up |-> up, down |-> down, caller |-> caller,
                        before |-> migrations, called |-> TRUE,
                        panicked |-> RegisterPanics(up, down, caller)]
    /\ IF RegisterPanics(up, down, caller)
       THEN /\ phase' = "panic"
            /\ UNCHANGED migrations
       ELSE /\ migrations' = Append(migrations,
                  [version |-> versionFromFile(Base(caller)).v,
                   up |-> up, down |-> down, file |-> Base(caller)])
            /\ UNCHANGED phase
    /\ UNCHANGED <<db, now, ncalls, last, prev, dir, lastCreate, arg, parsed, runners>>

(* sort.Stable(byVersion(m)) on a copy: a stable insertion sort. *)
RECURSIVE sortStable(_)
sortStable(m) ==
    IF m = <<>> THEN <<>>
    ELSE LET init == sortStable(SubSeq(m, 1, Len(m) - 1))
             x    == m[Len(m)]
             k    == Cardinality({i \in 1..Len(init) : ~(x.version < init[i].version)})
         IN  SubSeq(init, 1, k) \o <<x>> \o SubSeq(init, k + 1, Len(init))

(* A faulty variant of sortedMigrations: the registry as it is. *)
sortedMigrations_asRegistered == migrations

sortedMigrations == sortStable(migrations)

----------------------------------------------------------------------------
(* Errors.  kind tells the fmt.Errorf that built the error, version the    *)
(* version its message names, cause the kind of the error it wraps.        *)

Error(kind, version, cause) == [kind |-> kind, version |-> version, cause |-> cause]

Nil == Error("nil", 0, "nil")

(* What can go wrong during one call: the statement, migration function or *)
(* transaction operation that fails (kind), the position in the pending    *)
(* list of the migration function that fails (at), whether that function   *)
(* wrote its row before failing (partial), and whether tx.Rollback fails.  *)
FaultPlan(kind, at, partial, rollback) ==
    [kind |-> kind, at |-> at, partial |-> partial, rollback |-> rollback]

(* The plans that differ for a call made with the given tx: begin, commit  *)
(* and rollback exist only in a transaction, and a rollback discards the   *)
(* failing function's row whether it was written or not.                   *)
FaultPlans(tx) ==
    {FaultPlan(k, 0, FALSE, FALSE) : k \in {"none", "setup", "query", "setversion"}}
    \cup {FaultPlan("step", at, p, FALSE) : at \in 1..MaxMigrations, p \in BOOLEAN}
    \cup (IF tx
          THEN {FaultPlan(k, 0, FALSE, FALSE) : k \in {"begin", "commit"}}
               \cup {FaultPlan("step", at, TRUE, TRUE) : at \in 1..MaxMigrations}
               \cup {FaultPlan("setversion", 0, FALSE, TRUE)}
          ELSE {})

----------------------------------------------------------------------------
(* The version store. *)

migrationUp == 0
migrationDown == 1

FreshDB == [exists |-> FALSE, version |-> <<>>, migrations_run |-> <<>>]

(* CREATE TABLE IF NOT EXISTS *)
setup(d, fails) ==
    IF fails
    THEN [db |-> d, err |-> Error("setup", 0, "nil")]
    ELSE [db |-> [d EXCEPT !.exists = TRUE], err |-> Nil]

(* The rows that ORDER BY updated_at DESC may put first: the order of rows *)
(* with equal updated_at is the database's choice.                         *)
FirstRows(table) ==
    {i \in 1..Len(table) : \A j \in 1..Len(table) : table[j].updated_at <= table[i].updated_at}

(* A faulty variant of CurrentVersion: a table without records is given   *)
(* the record of version 0.                                                *)
CurrentVersion_seedsRecord(d, plan, row) ==
    LET s == setup(d, plan.kind = "setup")
    IN  IF s.err # Nil
        THEN [db |-> s.db, version |-> 0, err |-> s.err]
        ELSE IF plan.kind = "query"
        THEN [db |-> s.db, version |-> 0, err |-> Error("query", 0, "nil")]
        ELSE IF s.db.version = <<>>
        THEN [db |-> [s.db EXCEPT !.version = <<[version |-> 0, updated_at |-> now]>>],
              version |-> 0, err |-> Nil]
        ELSE [db |-> s.db, version |-> s.db.version[row].version, err |-> Nil]

(* row: the row the query returns first, one of FirstRows. *)
CurrentVersion(d, plan, row) ==
    LET s == setup(d, plan.kind = "setup")
    IN  IF s.err # Nil
        THEN [db |-> s.db, version |-> 0, err |-> s.err]
        ELSE IF plan.kind = "query"
        THEN [db |-> s.db, version |-> 0, err |-> Error("query", 0, "nil")]
        ELSE IF s.db.version = <<>>
        THEN [db |-> s.db, version |-> 0, err |-> Nil]
        ELSE [db |-> s.db, version |-> s.db.version[row].version, err |-> Nil]

(* The versions a CurrentVersion that succeeds can return on database d. *)
CurrentVersions(d) ==
    IF d.version = <<>> THEN {0}
    ELSE {d.version[i].version : i \in FirstRows(d.version)}

(* A faulty variant of SetVersion: the version is kept in a single record  *)
(* that each call overwrites.                                              *)
SetVersion_overwrite(d, v, fails) ==
    IF fails \/ ~d.exists
    THEN [db |-> d, err |-> Error("setversion", v, "nil")]
    ELSE [db  |-> [d EXCEPT !.version = <<[version |-> v, updated_at |-> now]>>],
          err |-> Nil]

(* INSERT INTO the version table, stamped with the current second. *)
SetVersion(d, v, fails) ==
    IF fails \/ ~d.exists
    THEN [db |-> d, err |-> Error("setversion", v, "nil")]
    ELSE [db  |-> [d EXCEPT !.version = Append(@, [version |-> v, updated_at |-> now])],
          err |-> Nil]

----------------------------------------------------------------------------
(* The executor. *)

(* A MigrationFunc as newMigrationFunc builds it: it inserts its row into  *)
(* migrations_run and returns its error; one that fails before the insert  *)
(* writes nothing.                                                         *)
Row(version, type) == [version |-> version, migration_type |-> type]

Reverse(s) == [i \in 1..Len(s) |-> s[Len(s) + 1 - i]]

(* The result of running a unit of work or a whole upTo/downTo: the        *)
(* database afterwards, the captured newVersion, the error, the migration  *)
(* functions invoked, whether a transaction was begun, the faults hit.     *)
Outcome(d, newVersion, err, invoked, began, faults) ==
    [db |-> d, newVersion |-> newVersion, err |-> err, invoked |-> invoked,
     began |-> began, faults |-> faults]

(* A faulty variant of upFn: when a function fails it still records the    *)
(* version reached before the failure.                                     *)
upFn_recordsFrontier(d, pendingMigrations, plan) ==
    LET failed  == plan.kind = "step" /\ plan.at <= Len(pendingMigrations)
        n       == IF failed THEN plan.at ELSE Len(pendingMigrations)
        invoked == [i \in 1..n |-> Row(pendingMigrations[i].version, migrationUp)]
        written == IF failed /\ ~plan.partial THEN SubSeq(invoked, 1, n - 1) ELSE invoked
        d1      == [d EXCEPT !.migrations_run = @ \o written]
        reached == IF failed /\ n > 1 THEN pendingMigrations[n - 1].version
                   ELSE pendingMigrations[n].version
        sv      == SetVersion(d1, reached, plan.kind = "setversion")
    IN  IF failed /\ n = 1
        THEN Outcome(d1, reached, Error("up", reached, "func"), invoked, FALSE, {"step"})
        ELSE IF failed
        THEN Outcome(sv.db, pendingMigrations[n].version,
                     Error("up", pendingMigrations[n].version, "func"),
                     invoked, FALSE, {"step"})
        ELSE Outcome(sv.db, reached, sv.err, invoked, FALSE,
                     IF sv.err # Nil THEN {"setversion"} ELSE {})

(* A faulty variant of upFn: SetVersion(db, newVersion) is called on every *)
(* return, that of a failed step too.                                      *)
upFn_alwaysSetsVersion(d, pendingMigrations, plan) ==
    LET failed  == plan.kind = "step" /\ plan.at <= Len(pendingMigrations)
        n       == IF failed THEN plan.at ELSE Len(pendingMigrations)
        invoked == [i \in 1..n |-> Row(pendingMigrations[i].version, migrationUp)]
        written == IF failed /\ ~plan.partial THEN SubSeq(invoked, 1, n - 1) ELSE invoked
        d1      == [d EXCEPT !.migrations_run = @ \o written]
        newVersion == pendingMigrations[n].version
        sv      == SetVersion(d1, newVersion, plan.kind = "setversion")
    IN  IF failed
        THEN Outcome(sv.db, newVersion, Error("up", pendingMigrations[n].version, "func"),
                     invoked, FALSE, {"step"})
        ELSE Outcome(sv.db, newVersion, sv.err, invoked, FALSE,
                     IF sv.err # Nil THEN {"setversion"} ELSE {})

(* A faulty variant of upFn: newVersion is assigned once the function of   *)
(* the step has returned without error, not before it is called.           *)
upFn_versionAfterCall(d, pendingMigrations, plan) ==
    LET failed  == plan.kind = "step" /\ plan.at <= Len(pendingMigrations)
        n       == IF failed THEN plan.at ELSE Len(pendingMigrations)
        invoked == [i \in 1..n |-> Row(pendingMigrations[i].version, migrationUp)]
        written == IF failed /\ ~plan.partial THEN SubSeq(invoked, 1, n - 1) ELSE invoked
        d1      == [d EXCEPT !.migrations_run = @ \o written]
        newVersion == IF ~failed THEN pendingMigrations[n].version
                      ELSE IF n > 1 THEN pendingMigrations[n - 1].version
                      ELSE 0
        sv      == SetVersion(d1, newVersion, plan.kind = "setversion")
    IN  IF failed
        THEN Outcome(d1, newVersion, Error("up", pendingMigrations[n].version, "func"),
                     invoked, FALSE, {"step"})
        ELSE Outcome(sv.db, newVersion, sv.err, invoked, FALSE,
                     IF sv.err # Nil THEN {"setversion"} ELSE {})

(* fn of upTo, run on d (the connection or the transaction). *)
upFn(d, pendingMigrations, plan) ==
    LET failed  == plan.kind = "step" /\ plan.at <= Len(pendingMigrations)
        n       == IF failed THEN plan.at ELSE Len(pendingMigrations)
        invoked == [i \in 1..n |-> Row(pendingMigrations[i].version, migrationUp)]
        written == IF failed /\ ~plan.partial THEN SubSeq(invoked, 1, n - 1) ELSE invoked
        d1      == [d EXCEPT !.migrations_run = @ \o written]
        newVersion == pendingMigrations[n].version
        sv      == SetVersion(d1, newVersion, plan.kind = "setversion")
    IN  IF failed
        THEN Outcome(d1, newVersion, Error("up", pendingMigrations[n].version, "func"),
                     invoked, FALSE, {"step"})
        ELSE Outcome(sv.db, newVersion, sv.err, invoked, FALSE,
                     IF sv.err # Nil THEN {"setversion"} ELSE {})

(* A faulty variant of downFn: a function that fails does not stop the     *)
(* loop; the first error is returned once every function has run.          *)
downFn_runsAll(d, pendingMigrations, plan) ==
    LET failed  == plan.kind = "step" /\ plan.at <= Len(pendingMigrations)
        n       == Len(pendingMigrations)
        invoked == [i \in 1..n |-> Row(pendingMigrations[i].version, migrationDown)]
        written == IF failed /\ ~plan.partial
                   THEN SubSeq(invoked, 1, plan.at - 1) \o SubSeq(invoked, plan.at + 1, n)
                   ELSE invoked
        d1      == [d EXCEPT !.migrations_run = @ \o written]
        newVersion == pendingMigrations[n].version
        sv      == SetVersion(d1, newVersion, plan.kind = "setversion")
    IN  IF failed
        THEN Outcome(d1, newVersion,
                     Error("down", pendingMigrations[plan.at].version, "func"),
                     invoked, FALSE, {"step"})
        ELSE Outcome(sv.db, newVersion, sv.err, invoked, FALSE,
                     IF sv.err # Nil THEN {"setversion"} ELSE {})

(* fn of downTo. *)
downFn(d, pendingMigrations, plan) ==
    LET failed  == plan.kind = "step" /\ plan.at <= Len(pendingMigrations)
        n       == IF failed THEN plan.at ELSE Len(pendingMigrations)
        invoked == [i \in 1..n |-> Row(pendingMigrations[i].version, migrationDown)]
        written == IF failed /\ ~plan.partial THEN SubSeq(invoked, 1, n - 1) ELSE invoked
        d1      == [d EXCEPT !.migrations_run = @ \o written]
        newVersion == pendingMigrations[n].version
        sv      == SetVersion(d1, newVersion, plan.kind = "setversion")
    IN  IF failed
        THEN Outcome(d1, newVersion, Error("down", newVersion, "func"),
                     invoked, FALSE, {"step"})
        ELSE Outcome(sv.db, newVersion, sv.err, invoked, FALSE,
                     IF sv.err # Nil THEN {"setversion"} ELSE {})

(* A faulty variant of runTx: when Commit fails, what fn wrote stays. *)
runTx_commitKeepsWork(d, r, plan) ==
    IF plan.kind = "begin"
    THEN Outcome(d, 0, Error("begin", 0, "driver"), <<>>, FALSE, {"begin"})
    ELSE IF r.err # Nil
    THEN IF plan.rollback
         THEN Outcome(d, r.newVersion, Error("rollback", 0, "driver"), r.invoked, TRUE,
                      r.faults \cup {"rollback"})
         ELSE Outcome(d, r.newVersion, Error("rolledback", r.err.version, r.err.kind),
                      r.invoked, TRUE, r.faults)
    ELSE IF plan.kind = "commit"
    THEN Outcome(r.db, r.newVersion, Error("commit", 0, "driver"), r.invoked, TRUE, {"commit"})
    ELSE Outcome(r.db, r.newVersion, Nil, r.invoked, TRUE, {})

(* A faulty variant of runTx: a failed unit of work is not rolled back. *)
runTx_noRollback(d, r, plan) ==
    IF plan.kind = "begin"
    THEN Outcome(d, 0, Error("begin", 0, "driver"), <<>>, FALSE, {"begin"})
    ELSE IF r.err # Nil
    THEN Outcome(r.db, r.newVersion, Error("rolledback", r.err.version, r.err.kind),
                 r.invoked, TRUE, r.faults)
    ELSE IF plan.kind = "commit"
    THEN Outcome(d, r.newVersion, Error("commit", 0, "driver"), r.invoked, TRUE, {"commit"})
    ELSE Outcome(r.db, r.newVersion, Nil, r.invoked, TRUE, {})

(* A faulty variant of runTx: when Rollback fails the error of fn is       *)
(* returned all the same.                                                  *)
runTx_keepsStepError(d, r, plan) ==
    IF plan.kind = "begin"
    THEN Outcome(d, 0, Error("begin", 0, "driver"), <<>>, FALSE, {"begin"})
    ELSE IF r.err # Nil
    THEN Outcome(d, r.newVersion, Error("rolledback", r.err.version, r.err.kind),
                 r.invoked, TRUE,
                 IF plan.rollback THEN r.faults \cup {"rollback"} ELSE r.faults)
    ELSE IF plan.kind = "commit"
    THEN Outcome(d, r.newVersion, Error("commit", 0, "driver"), r.invoked, TRUE, {"commit"})
    ELSE Outcome(r.db, r.newVersion, Nil, r.invoked, TRUE, {})

(* A faulty variant of runTx: the error of Commit is dropped. *)
runTx_ignoresCommit(d, r, plan) ==
    IF plan.kind = "begin"
    THEN Outcome(d, 0, Error("begin", 0, "driver"), <<>>, FALSE, {"begin"})
    ELSE IF r.err # Nil
    THEN IF plan.rollback
         THEN Outcome(d, r.newVersion, Error("rollback", 0, "driver"), r.invoked, TRUE,
                      r.faults \cup {"rollback"})
         ELSE Outcome(d, r.newVersion, Error("rolledback", r.err.version, r.err.kind),
                      r.invoked, TRUE, r.faults)
    ELSE IF plan.kind = "commit"
    THEN Outcome(d, r.newVersion, Nil, r.invoked, TRUE, {"commit"})
    ELSE Outcome(r.db, r.newVersion, Nil, r.invoked, TRUE, {})

(* runTx on database d; r is what fn does when run on the transaction.     *)
(* When Begin fails fn never runs and the captured newVersion stays 0.  A  *)
(* transaction that is rolled back, or whose Rollback or Commit fails,     *)
(* leaves the database as it was.                                          *)
runTx(d, r, plan) ==
    IF plan.kind = "begin"
    THEN Outcome(d, 0, Error("begin", 0, "driver"), <<>>, FALSE, {"begin"})
    ELSE IF r.err # Nil
    THEN IF plan.rollback
         THEN Outcome(d, r.newVersion, Error("rollback", 0, "driver"), r.invoked, TRUE,
                      r.faults \cup {"rollback"})
         ELSE Outcome(d, r.newVersion, Error("rolledback", r.err.version, r.err.kind),
                      r.invoked, TRUE, r.faults)
    ELSE IF plan.kind = "commit"
    THEN Outcome(d, r.newVersion, Error("commit", 0, "driver"), r.invoked, TRUE, {"commit"})
    ELSE Outcome(r.db, r.newVersion, Nil, r.invoked, TRUE, {})

(* A faulty variant of upPending: the step of the old version is pending. *)
upPending_inclusive(oldVersion, target) ==
    SelectSeq(sortedMigrations, LAMBDA m : m.version >= oldVersion /\ m.version <= target)

(* The pending migrations of upTo. *)
upPending(oldVersion, target) ==
    SelectSeq(sortedMigrations, LAMBDA m : m.version > oldVersion /\ m.version <= target)

(* A faulty variant of upTo: an empty pending list is run like any other,  *)
(* so that fn invokes nothing and sets the version to its zero newVersion. *)
upTo_noEmptyCheck(d, tx, oldVersion, target, plan) ==
    LET pendingMigrations == upPending(oldVersion, target)
        sv == SetVersion(d, 0, FALSE)
    IN  IF Len(pendingMigrations) = 0
        THEN Outcome(sv.db, 0, sv.err, <<>>, tx, {})
        ELSE IF tx
        THEN runTx(d, upFn(d, pendingMigrations, plan), plan)
        ELSE upFn(d, pendingMigrations, plan)

(* upTo returns newVersion as fn left it: the result expression is read    *)
(* after the call beside it has run (TestUp expects 3, not 0).             *)
upTo(d, tx, oldVersion, target, plan) ==
    LET pendingMigrations == upPending(oldVersion, target)
    IN  IF Len(pendingMigrations) = 0
        THEN Outcome(d, 0, Error("nowork", 0, "nil"), <<>>, FALSE, {})
        ELSE IF tx
        THEN runTx(d, upFn(d, pendingMigrations, plan), plan)
        ELSE upFn(d, pendingMigrations, plan)

(* A faulty variant of downPending: the step of the target is pending. *)
downPending_inclusive(oldVersion, target) ==
    SelectSeq(Reverse(sortedMigrations),
              LAMBDA m : m.version <= oldVersion /\ m.version >= target)

(* The pending migrations of downTo. *)
downPending(oldVersion, target) ==
    SelectSeq(Reverse(sortedMigrations),
              LAMBDA m : m.version <= oldVersion /\ m.version > target)

(* The result expression newVersion - 1 of downTo, read after fn has run   *)
(* (TestDown expects 2, not -1).                                           *)
downResult(r) == [r EXCEPT !.newVersion = @ - 1]

downTo(d, tx, oldVersion, target, plan) ==
    LET pendingMigrations == downPending(oldVersion, target)
    IN  IF Len(pendingMigrations) = 0
        THEN Outcome(d, 0, Error("nowork", 0, "nil"), <<>>, FALSE, {})
        ELSE IF tx
        THEN downResult(runTx(d, downFn(d, pendingMigrations, plan), plan))
        ELSE downResult(downFn(d, pendingMigrations, plan))

----------------------------------------------------------------------------
(* The calls.  Each one records its arguments, the database before it     *)
(* (before), what it returned and what it did.                             *)

Call(op, tx, v, before, oldVersion, r) ==
    [op |-> op, tx |-> tx, v |-> v, before |-> before,
     oldVersion |-> oldVersion, newVersion |-> r.newVersion, err |-> r.err,
     invoked |-> r.invoked, began |-> r.began, faults |-> r.faults]

NoCall == Call("none", FALSE, 0, FreshDB, 0, Outcome(FreshDB, 0, Nil, <<>>, FALSE, {}))

(* The outcome of a call that stops before upTo/downTo. *)
Early(d, newVersion, err, faults) == Outcome(d, newVersion, err, <<>>, FALSE, faults)

(* A faulty variant of ToVersion: the target is looked up before it is     *)
(* compared with the old version.                                          *)
ToVersionResult_lookupFirst(d, tx, v, plan, row) ==
    LET cv    == CurrentVersion(d, plan, row)
        found == \E i \in 1..Len(migrations) : migrations[i].version = v
    IN  IF cv.err # Nil
        THEN [oldVersion |-> cv.version, r |-> Early(cv.db, 0, cv.err, {cv.err.kind})]
        ELSE IF ~found
        THEN [oldVersion |-> 0, r |-> Early(cv.db, 0, Error("notfound", v, "nil"), {})]
        ELSE IF cv.version = v
        THEN [oldVersion |-> v, r |-> Early(cv.db, v, Nil, {})]
        ELSE IF v > cv.version
        THEN [oldVersion |-> cv.version, r |-> upTo(cv.db, tx, cv.version, v, plan)]
        ELSE [oldVersion |-> cv.version, r |-> downTo(cv.db, tx, cv.version, v, plan)]

(* A faulty variant of ToVersion: the target is not looked up at all. *)
ToVersionResult_noLookup(d, tx, v, plan, row) ==
    LET cv == CurrentVersion(d, plan, row)
    IN  IF cv.err # Nil
        THEN [oldVersion |-> cv.version, r |-> Early(cv.db, 0, cv.err, {cv.err.kind})]
        ELSE IF cv.version = v
        THEN [oldVersion |-> v, r |-> Early(cv.db, v, Nil, {})]
        ELSE IF v > cv.version
        THEN [oldVersion |-> cv.version, r |-> upTo(cv.db, tx, cv.version, v, plan)]
        ELSE [oldVersion |-> cv.version, r |-> downTo(cv.db, tx, cv.version, v, plan)]

(* ToVersion: what it returns and what it leaves in the database. *)
ToVersionResult(d, tx, v, plan, row) ==
    LET cv    == CurrentVersion(d, plan, row)
        found == \E i \in 1..Len(migrations) : migrations[i].version = v
    IN  IF cv.err # Nil
        THEN [oldVersion |-> cv.version, r |-> Early(cv.db, 0, cv.err, {cv.err.kind})]
        ELSE IF cv.version = v
        THEN [oldVersion |-> v, r |-> Early(cv.db, v, Nil, {})]
        ELSE IF ~found
        THEN [oldVersion |-> 0, r |-> Early(cv.db, 0, Error("notfound", v, "nil"), {})]
        ELSE IF v > cv.version
        THEN [oldVersion |-> cv.version, r |-> upTo(cv.db, tx, cv.version, v, plan)]
        ELSE [oldVersion |-> cv.version, r |-> downTo(cv.db, tx, cv.version, v, plan)]

(* A faulty variant of Up: when upTo fails the old version is returned as  *)
(* 0, as ToVersion returns it for a version that is not found.             *)
UpResult_dropsOldVersion(d, tx, plan, row) ==
    LET cv == CurrentVersion(d, plan, row)
        r  == upTo(cv.db, tx, cv.version, MaxInt64, plan)
    IN  IF cv.err # Nil
        THEN [oldVersion |-> cv.version, r |-> Early(cv.db, 0, cv.err, {cv.err.kind})]
        ELSE [oldVersion |-> IF r.err # Nil THEN 0 ELSE cv.version, r |-> r]

UpResult(d, tx, plan, row) ==
    LET cv == CurrentVersion(d, plan, row)
    IN  IF cv.err # Nil
        THEN [oldVersion |-> cv.version, r |-> Early(cv.db, 0, cv.err, {cv.err.kind})]
        ELSE [oldVersion |-> cv.version, r |-> upTo(cv.db, tx, cv.version, MaxInt64, plan)]

(* A faulty variant of Down: the error of CurrentVersion is not looked at  *)
(* and downTo runs from the version 0 that came with it.                   *)
DownResult_ignoresReadError(d, tx, plan, row) ==
    LET cv == CurrentVersion(d, plan, row)
    IN  [oldVersion |-> cv.version,
         r |-> [downTo(cv.db, tx, cv.version, cv.version - 1, plan)
                   EXCEPT !.faults = @ \cup (IF cv.err = Nil THEN {} ELSE {cv.err.kind})]]

(* Down: what it returns and what it leaves in the database. *)
DownResult(d, tx, plan, row) ==
    LET cv == CurrentVersion(d, plan, row)
    IN  IF cv.err # Nil
        THEN [oldVersion |-> 0, r |-> Early(cv.db, 0, cv.err, {cv.err.kind})]
        ELSE [oldVersion |-> cv.version,
              r |-> downTo(cv.db, tx, cv.version, cv.version - 1, plan)]

(* The rows the version query may return first; 0 stands for no row. *)
Rows(d) == IF d.version = <<>> THEN {0} ELSE FirstRows(d.version)

CanCall == phase = "main" /\ ncalls < MaxCalls

ToVersionCall(tx, v) ==
    /\ \E plan \in FaultPlans(tx), row \in Rows(db) :
         LET res == ToVersionResult(db, tx, v, plan, row)
         IN  /\ db' = res.r.db
             /\ last' = Call("ToVersion", tx, v, db, res.oldVersion, res.r)
    /\ ncalls' = ncalls + 1
    /\ prev' = last
    /\ UNCHANGED <<migrations, phase, lastRegister, now, dir, lastCreate, arg, parsed, runners>>

UpCall(tx) ==
    /\ \E plan \in FaultPlans(tx), row \in Rows(db) :
         LET res == UpResult(db, tx, plan, row)
         IN  /\ db' = res.r.db
             /\ last' = Call("Up", tx, 0, db, res.oldVersion, res.r)
    /\ ncalls' = ncalls + 1
    /\ prev' = last
    /\ UNCHANGED <<migrations, phase, lastRegister, now, dir, lastCreate, arg, parsed, runners>>

DownCall(tx) ==
    /\ \E plan \in FaultPlans(tx), row \in Rows(db) :
         LET res == DownResult(db, tx, plan, row)
         IN  /\ db' = res.r.db
             /\ last' = Call("Down", tx, 0, db, res.oldVersion, res.r)
    /\ ncalls' = ncalls + 1
    /\ prev' = last
    /\ UNCHANGED <<migrations, phase, lastRegister, now, dir, lastCreate, arg, parsed, runners>>

Up(tx) == CanCall /\ UpCall(tx)

Down(tx) == CanCall /\ DownCall(tx)

ToVersion(tx, v) == CanCall /\ ToVersionCall(tx, v)

(* versionFromFile not called yet. *)
NotParsed == [called |-> FALSE, ok |-> FALSE, v |-> 0]

(* The Up calls made at the same time, none of them started. *)
Runners == {1, 2}

NoRunners ==
    [p \in Runners |-> [pc |-> "idle", seen |-> <<>>, oldVersion |-> 0, newVersion |-> 0,
                        err |-> Nil, invoked |-> <<>>, began |-> FALSE, faults |-> {}]]

(* No Create call yet. *)
NoCreate == [name |-> <<>>, before |-> {}, filename |-> <<>>, err |-> Nil, calls |-> 0]

(* A caller's own SetVersion(db, v). *)
SetVersionCall(v) ==
    /\ CanCall
    /\ \E fails \in BOOLEAN :
         LET s == SetVersion(db, v, fails)
         IN  /\ db' = s.db
             /\ last' = Call("SetVersion", FALSE, v, db, 0,
                             Early(s.db, 0, s.err,
                                   IF s.err = Nil THEN {} ELSE {s.err.kind}))
    /\ ncalls' = ncalls + 1
    /\ prev' = last
    /\ UNCHANGED <<migrations, phase, lastRegister, now, dir, lastCreate, arg, parsed, runners>>

(* A caller's own CurrentVersion(db); newVersion holds the version read. *)
CurrentVersionRead ==
    /\ \E kind \in {"none", "setup", "query"}, row \in Rows(db) :
         LET cv == CurrentVersion(db, FaultPlan(kind, 0, FALSE, FALSE), row)
         IN  /\ db' = cv.db
             /\ last' = Call("CurrentVersion", FALSE, 0, db, 0,
                             Early(cv.db, cv.version, cv.err,
                                   IF cv.err = Nil THEN {} ELSE {cv.err.kind}))
    /\ ncalls' = ncalls + 1
    /\ prev' = last
    /\ UNCHANGED <<migrations, phase, lastRegister, now, dir, lastCreate, arg, parsed, runners>>

CurrentVersionCall == CanCall /\ CurrentVersionRead

(* The init() functions are done; main runs. *)
Main ==
    /\ phase = "init"
    /\ phase' = "main"
    /\ UNCHANGED <<migrations, lastRegister, db, now, ncalls, last, prev, dir, lastCreate, arg, parsed, runners>>

(* The database as initTest hands it to a test: the version table set up  *)
(* and, for a version above 0, one row that says so.                       *)
initTest(version) ==
    /\ phase = "main"
    /\ ncalls = 0
    /\ db = FreshDB
    /\ LET s == setup(db, FALSE)
       IN  db' = IF version > 0 THEN SetVersion(s.db, version, FALSE).db ELSE s.db
    /\ UNCHANGED <<migrations, phase, lastRegister, now, ncalls, last, prev, dir, lastCreate, arg, parsed, runners>>

(* Time passes: the clock shows the next second.  Seconds in which no row  *)
(* is written are left out, so the clock advances only past a second that  *)
(* stamps some row.                                                        *)
Tick ==
    /\ phase = "main"
    /\ \E i \in 1..Len(db.version) : db.version[i].updated_at = now
    /\ now' = now + 1
    /\ UNCHANGED <<migrations, phase, lastRegister, db, ncalls, last, prev, dir, lastCreate, arg, parsed, runners>>

(* The versions ToVersion is asked for. *)
Targets ==
    LET registrable == {versionFromFile(Base(f)).v :
                          f \in {g \in CallerFiles : versionFromFile(Base(g)).ok}}
    IN  0..(CHOOSE v \in registrable : \A w \in registrable : w <= v)

Init ==
    /\ migrations = <<>>
    /\ phase = "init"
    /\ lastRegister = NoRegister
    /\ dir = {}
    /\ lastCreate = NoCreate
    /\ arg = <<>>
    /\ parsed = NotParsed
    /\ db = FreshDB
    /\ now = 0
    /\ ncalls = 0
    /\ last = NoCall
    /\ prev = NoCall
    /\ runners = NoRunners

Next ==
    \/ \E up \in {NilFunc, SomeFunc}, down \in {NilFunc, SomeFunc}, caller \in CallerFiles :
         Register(up, down, caller)
    \/ Main
    \/ \E version \in Targets : initTest(version)
    \/ Tick
    \/ \E tx \in BOOLEAN : Up(tx)
    \/ \E tx \in BOOLEAN : Down(tx)
    \/ \E tx \in BOOLEAN, v \in Targets : ToVersion(tx, v)
    \/ \E v \in Targets : SetVersionCall(v)
    \/ CurrentVersionCall

Spec == Init /\ [][Next]_vars

----------------------------------------------------------------------------
(* Create. *)

MaxCreates == 2        \* Create calls at most

(* The files a migrations directory holds before Create is called. *)
ExistingFiles ==
    { <<"0", "0", "0", "1", "_", "f", "o", "o", ".", "g", "o">>,
      <<"0", "0", "0", "2", "_", "f", "o", "o", ".", "g", "o">>,
      <<"7", "_", "b", "a", "r", ".", "g", "o">>,
      <<"f", "o", "o", ".", "g", "o">>,
      <<"0", "0", "0", "9", "_", "f", "o", "o", ".", "s", "q", "l">> }

(* strconv-style decimal digits of n >= 0. *)
RECURSIVE Itoa(_)
Itoa(n) ==
    IF n < 10 THEN <<Digits[n + 1]>>
    ELSE Itoa(n \div 10) \o <<Digits[(n % 10) + 1]>>

RECURSIVE ZeroPad(_, _)
ZeroPad(s, width) == IF Len(s) >= width THEN s ELSE ZeroPad(<<"0">> \o s, width)

(* fmt.Sprintf("%04d", n): at least four characters, the sign among them. *)
Sprintf04d(n) ==
    IF n < 0 THEN <<"-">> \o ZeroPad(Itoa(0 - n), 3) ELSE ZeroPad(Itoa(n), 4)

(* filepath.Abs of the migrations directory. *)
MigrationsDir == <<"/", "m", "i", "g", "r", "a", "t", "i", "o", "n", "s">>

Join(d, file) == d \o <<"/">> \o file

(* filepath.Glob(filepath.Join(dir, "*.go")): the paths of the files in    *)
(* the directory whose names end in .go.                                   *)
Glob(files) == {Join(MigrationsDir, f) : f \in {g \in files : HasSuffix(g, <<".", "g", "o">>)}}

(* The name Create gives the new file when the directory holds files: the  *)
(* versions of the matches that versionFromFile accepts, the largest of    *)
(* them (the last after sort.Stable) or 0, and the name built from it.     *)
CreateFilename(files, name) ==
    LET matches  == Glob(files)
        versions == {versionFromFile(m).v : m \in {g \in matches : versionFromFile(g).ok}}
        lastVersion == IF versions = {} THEN 0
                       ELSE CHOOSE v \in versions : \A w \in versions : w <= v
    IN  Sprintf04d(lastVersion + 1) \o <<"_">> \o name \o <<".", "g", "o">>

(* Create(path, name) on the migrations directory; ioutil.WriteFile        *)
(* creates the file or truncates the one that bears the name.              *)
Create(name) ==
    /\ lastCreate.calls < MaxCreates
    /\ \E fails \in BOOLEAN :
         LET filename == CreateFilename(dir, name)
         IN  IF fails
             THEN /\ lastCreate' = [name |-> name, before |-> dir, filename |-> <<>>,
                                    err |-> Error("writefile", 0, "nil"),
                                    calls |-> lastCreate.calls + 1]
                  /\ UNCHANGED dir
             ELSE /\ lastCreate' = [name |-> name, before |-> dir, filename |-> filename,
                                    err |-> Nil, calls |-> lastCreate.calls + 1]
                  /\ dir' = dir \cup {filename}
    /\ UNCHANGED <<migrations, phase, lastRegister, db, now, ncalls, last, prev, arg, parsed, runners>>

(* The names migrations are created with. *)
CreateNames == {<<"f", "o", "o">>, <<"b", "a", "r">>}

InitCreate ==
    /\ migrations = <<>>
    /\ phase = "init"
    /\ lastRegister = NoRegister
    /\ dir \in SUBSET ExistingFiles
    /\ lastCreate = NoCreate
    /\ arg = <<>>
    /\ parsed = NotParsed
    /\ db = FreshDB
    /\ now = 0
    /\ ncalls = 0
    /\ last = NoCall
    /\ prev = NoCall
    /\ runners = NoRunners

NextCreate == \E name \in CreateNames : Create(name)

SpecCreate == InitCreate /\ [][NextCreate]_vars

----------------------------------------------------------------------------
(* versionFromFile alone, on each of FileNames. *)
InitParse ==
    /\ migrations = <<>>
    /\ phase = "init"
    /\ lastRegister = NoRegister
    /\ dir = {}
    /\ lastCreate = NoCreate
    /\ arg \in FileNames
    /\ parsed = NotParsed
    /\ db = FreshDB
    /\ now = 0
    /\ ncalls = 0
    /\ last = NoCall
    /\ prev = NoCall
    /\ runners = NoRunners

SpecParse == InitParse /\ [][ParseFile]_vars

(* The init() functions alone, in a package with the files RegisterFiles. *)
NextRegister ==
    \E up \in {NilFunc, SomeFunc}, down \in {NilFunc, SomeFunc}, caller \in RegisterFiles :
        Register(up, down, caller)

SpecRegister == Init /\ [][NextRegister]_vars

----------------------------------------------------------------------------
(* The scenario of the tests: generateMigrations(3) registered, a fresh    *)
(* database, then Up, Down, ToVersion(1) and Up again, each in a           *)
(* transaction and each made once the one before has returned without      *)
(* error.                                                                  *)

FileOf(digit) == <<digit, "_", "t", "e", "s", "t", ".", "g", "o">>

generateMigrations ==
    [i \in 1..3 |-> [version |-> i, up |-> SomeFunc, down |-> SomeFunc,
                     file |-> FileOf(Digits[i + 1])]]

InitScenario ==
    /\ migrations = generateMigrations
    /\ phase = "main"
    /\ lastRegister = NoRegister
    /\ dir = {}
    /\ lastCreate = NoCreate
    /\ arg = <<>>
    /\ parsed = NotParsed
    /\ db \in {FreshDB, setup(FreshDB, FALSE).db}
    /\ now = 0
    /\ ncalls = 0
    /\ last = NoCall
    /\ prev = NoCall
    /\ runners = NoRunners

ScenarioUp == ncalls = 0 /\ UpCall(TRUE)

ScenarioDown == ncalls = 1 /\ last.err = Nil /\ DownCall(TRUE)

ScenarioToVersion == ncalls = 2 /\ last.err = Nil /\ ToVersionCall(TRUE, 1)

ScenarioUpAgain == ncalls = 3 /\ last.err = Nil /\ UpCall(TRUE)

NextScenario ==
    Tick \/ ScenarioUp \/ ScenarioDown \/ ScenarioToVersion \/ ScenarioUpAgain

SpecScenario == InitScenario /\ [][NextScenario]_vars

(* A retry: generateMigrations(3) registered, the database as initTest     *)
(* leaves it at version 0, 1 or 2; Up without a transaction, and Up        *)
(* without a transaction again once the first has failed at a step.        *)
InitRetry ==
    /\ migrations = generateMigrations
    /\ phase = "main"
    /\ lastRegister = NoRegister
    /\ dir = {}
    /\ lastCreate = NoCreate
    /\ arg = <<>>
    /\ parsed = NotParsed
    /\ now = 0
    /\ db \in {setup(FreshDB, FALSE).db}
              \cup {SetVersion(setup(FreshDB, FALSE).db, v, FALSE).db : v \in 1..2}
    /\ ncalls = 0
    /\ last = NoCall
    /\ prev = NoCall
    /\ runners = NoRunners

RetryUp == ncalls = 0 /\ UpCall(FALSE)

RetryUpAgain == ncalls = 1 /\ "step" \in last.faults /\ UpCall(FALSE)

NextRetry == Tick \/ RetryUp \/ RetryUpAgain

SpecRetry == InitRetry /\ [][NextRetry]_vars

(* Two Up calls in a transaction each, made at the same time against the  *)
(* same database, generateMigrations(3) registered.  Up reads the current  *)
(* version on the connection, outside the transaction, and then runs the   *)
(* transaction; the transactions themselves run one after the other.       *)

(* The CurrentVersion(db) of one of the Up calls; seen is the version      *)
(* table it read.                                                          *)
ConcurrentRead(p) ==
    /\ runners[p].pc = "idle"
    /\ \E kind \in {"none", "setup", "query"}, row \in Rows(db) :
         LET cv == CurrentVersion(db, FaultPlan(kind, 0, FALSE, FALSE), row)
         IN  /\ db' = cv.db
             /\ runners' = [runners EXCEPT ![p] =
                    [@ EXCEPT !.pc = IF cv.err = Nil THEN "read" ELSE "done",
                              !.seen = cv.db.version,
                              !.oldVersion = cv.version,
                              !.err = cv.err,
                              !.faults = IF cv.err = Nil THEN {} ELSE {cv.err.kind}]]
    /\ UNCHANGED <<migrations, phase, lastRegister, dir, lastCreate, arg, parsed,
                   now, ncalls, last, prev>>

(* A faulty variant of ConcurrentRun: the transaction reads the current    *)
(* version again and runs from the version it finds.                       *)
ConcurrentRun_readsInTx(p) ==
    /\ runners[p].pc = "read"
    /\ \E plan \in FaultPlans(TRUE), row \in Rows(db) :
         LET r == upTo(db, TRUE, CurrentVersion(db, plan, row).version, MaxInt64, plan)
         IN  /\ db' = r.db
             /\ runners' = [runners EXCEPT ![p] =
                    [@ EXCEPT !.pc = "done", !.newVersion = r.newVersion, !.err = r.err,
                              !.invoked = r.invoked, !.began = r.began,
                              !.faults = r.faults]]
    /\ UNCHANGED <<migrations, phase, lastRegister, dir, lastCreate, arg, parsed,
                   now, ncalls, last, prev>>

(* The upTo(db, tx, oldVersion, math.MaxInt64) of one of the Up calls,     *)
(* from the version it read.                                               *)
ConcurrentRun(p) ==
    /\ runners[p].pc = "read"
    /\ \E plan \in FaultPlans(TRUE) :
         LET r == upTo(db, TRUE, runners[p].oldVersion, MaxInt64, plan)
         IN  /\ db' = r.db
             /\ runners' = [runners EXCEPT ![p] =
                    [@ EXCEPT !.pc = "done", !.newVersion = r.newVersion, !.err = r.err,
                              !.invoked = r.invoked, !.began = r.began,
                              !.faults = r.faults]]
    /\ UNCHANGED <<migrations, phase, lastRegister, dir, lastCreate, arg, parsed,
                   now, ncalls, last, prev>>

InitConcurrent ==
    /\ migrations = generateMigrations
    /\ phase = "main"
    /\ lastRegister = NoRegister
    /\ dir = {}
    /\ lastCreate = NoCreate
    /\ arg = <<>>
    /\ parsed = NotParsed
    /\ now = 0
    /\ db \in {FreshDB}
              \cup {SetVersion(setup(FreshDB, FALSE).db, v, FALSE).db : v \in 1..3}
    /\ ncalls = 0
    /\ last = NoCall
    /\ prev = NoCall
    /\ runners = NoRunners

NextConcurrent ==
    \/ Tick
    \/ \E p \in Runners : ConcurrentRead(p)
    \/ \E p \in Runners : ConcurrentRun(p)

SpecConcurrent == InitConcurrent /\ [][NextConcurrent]_vars

----------------------------------------------------------------------------
(* Down called again and again: steps 1..n registered, the database at     *)
(* version n as initTest(n) leaves it, each Down made once the one before  *)
(* has returned without error, until one more call than there are steps.   *)

InitRollback ==
    /\ now = 0
    /\ \E n \in 1..Len(generateMigrations) :
         /\ migrations = SubSeq(generateMigrations, 1, n)
         /\ db = SetVersion(setup(FreshDB, FALSE).db, n, FALSE).db
    /\ phase = "main"
    /\ lastRegister = NoRegister
    /\ dir = {}
    /\ lastCreate = NoCreate
    /\ arg = <<>>
    /\ parsed = NotParsed
    /\ ncalls = 0
    /\ last = NoCall
    /\ prev = NoCall
    /\ runners = NoRunners

RollbackDown ==
    /\ ncalls <= Len(migrations)
    /\ last.err = Nil
    /\ \E tx \in BOOLEAN : DownCall(tx)

NextRollback == Tick \/ RollbackDown

SpecRollback == InitRollback /\ [][NextRollback]_vars

----------------------------------------------------------------------------
(* ExecAll and DropAll. *)

MaxStmts == 3          \* statements or tables given to one call, at most

(* The statements given to ExecAll: the INSERT INTO migrations_run of the  *)
(* tests' migration functions, each a row to insert.                       *)
Stmts == {Row(1, migrationUp), Row(2, migrationUp)}

(* The tables given to DropAll. *)
Tables == {"version", "migrations_run"}

(* db.Exec of an INSERT that succeeds. *)
ExecInsert(d, stmt) == [d EXCEPT !.migrations_run = Append(@, stmt)]

(* db.Exec of a DROP TABLE that succeeds. *)
ExecDrop(d, t) ==
    IF t = "version" THEN [d EXCEPT !.exists = FALSE, !.version = <<>>]
    ELSE [d EXCEPT !.migrations_run = <<>>]

(* The error db.Exec returns for statement i of a call. *)
ExecError(i) == Error("exec", i, "driver")

RECURSIVE ExecAllFrom(_, _, _, _)
(* The loop of ExecAll from statement i on: db.Exec fails at statement     *)
(* failAt (0: at none).  invoked holds the statements given to db.Exec.    *)
ExecAllFrom(d, stmts, i, failAt) ==
    IF i > Len(stmts)
    THEN Outcome(d, 0, Nil, stmts, FALSE, {})
    ELSE IF i = failAt
    THEN Outcome(d, 0, ExecError(i), SubSeq(stmts, 1, i), FALSE, {"exec"})
    ELSE ExecAllFrom(ExecInsert(d, stmts[i]), stmts, i + 1, failAt)

(* A faulty variant of ExecAll: a statement that fails is skipped, and its *)
(* error is returned once the last statement has been executed.            *)
ExecAll_continues(d, stmts, failAt) ==
    IF failAt \in 1..Len(stmts)
    THEN LET head == ExecAllFrom(d, SubSeq(stmts, 1, failAt - 1), 1, 0)
             rest == ExecAllFrom(head.db, SubSeq(stmts, failAt + 1, Len(stmts)), 1, 0)
         IN  Outcome(rest.db, 0, ExecError(failAt), stmts, FALSE, {"exec"})
    ELSE ExecAllFrom(d, stmts, 1, 0)

(* ExecAll(db, stmts...). *)
ExecAll(d, stmts, failAt) == ExecAllFrom(d, stmts, 1, failAt)

RECURSIVE DropAllFrom(_, _, _, _)
(* The loop of DropAll from table i on; invoked holds the tables of the    *)
(* DROP TABLE statements given to db.Exec.                                 *)
DropAllFrom(d, tables, i, failAt) ==
    IF i > Len(tables)
    THEN Outcome(d, 0, Nil, tables, FALSE, {})
    ELSE IF i = failAt
    THEN Outcome(d, 0, ExecError(i), SubSeq(tables, 1, i), FALSE, {"exec"})
    ELSE DropAllFrom(ExecDrop(d, tables[i]), tables, i + 1, failAt)

(* DropAll(db, tables...). *)
DropAll(d, tables, failAt) == DropAllFrom(d, tables, 1, failAt)

SeqsOf(S) == UNION {[1..n -> S] : n \in 0..MaxStmts}

ExecAllCall ==
    /\ CanCall
    /\ \E stmts \in SeqsOf(Stmts) : \E failAt \in 0..Len(stmts) :
         LET r == ExecAll(db, stmts, failAt)
         IN  /\ db' = r.db
             /\ last' = Call("ExecAll", FALSE, stmts, db, 0, r)
    /\ ncalls' = ncalls + 1
    /\ prev' = last
    /\ UNCHANGED <<migrations, phase, lastRegister, dir, lastCreate, arg, parsed,
                   now, runners>>

DropAllCall ==
    /\ CanCall
    /\ \E tables \in SeqsOf(Tables) : \E failAt \in 0..Len(tables) :
         LET r == DropAll(db, tables, failAt)
         IN  /\ db' = r.db
             /\ last' = Call("DropAll", FALSE, tables, db, 0, r)
    /\ ncalls' = ncalls + 1
    /\ prev' = last
    /\ UNCHANGED <<migrations, phase, lastRegister, dir, lastCreate, arg, parsed,
                   now, runners>>

InitExec ==
    /\ migrations = <<>>
    /\ phase = "main"
    /\ lastRegister = NoRegister
    /\ dir = {}
    /\ lastCreate = NoCreate
    /\ arg = <<>>
    /\ parsed = NotParsed
    /\ now = 0
    /\ db \in {setup(FreshDB, FALSE).db, SetVersion(setup(FreshDB, FALSE).db, 1, FALSE).db}
    /\ ncalls = 0
    /\ last = NoCall
    /\ prev = NoCall
    /\ runners = NoRunners

NextExec == ExecAllCall \/ DropAllCall

SpecExec == InitExec /\ [][NextExec]_vars

----------------------------------------------------------------------------
(* CurrentVersion called again and again on a database that has no        *)
(* version table yet, or a version table of up to two records.             *)
MaxReads == 3          \* CurrentVersion calls at most

VersionTables ==
    {<<>>}
    \cup {<<[version |-> v, updated_at |-> 0]>> : v \in 0..2}
    \cup {<<[version |-> v, updated_at |-> 0], [version |-> w, updated_at |-> t]>> :
             v \in 0..2, w \in 0..2, t \in 0..1}

InitRead ==
    /\ migrations = <<>>
    /\ phase = "main"
    /\ lastRegister = NoRegister
    /\ dir = {}
    /\ lastCreate = NoCreate
    /\ arg = <<>>
    /\ parsed = NotParsed
    /\ now = 1
    /\ db \in {FreshDB} \cup {[exists |-> TRUE, version |-> t, migrations_run |-> <<>>] :
                                t \in VersionTables}
    /\ ncalls = 0
    /\ last = NoCall
    /\ prev = NoCall
    /\ runners = NoRunners

NextRead == phase = "main" /\ ncalls < MaxReads /\ CurrentVersionRead

SpecRead == InitRead /\ [][NextRead]_vars


----------------------------------------------------------------------------
(* Properties. *)

Registered(v) == \E i \in 1..Len(migrations) : migrations[i].version = v

Versions == {migrations[i].version : i \in 1..Len(migrations)}

(* The elements of a finite set of integers in ascending, descending order. *)
Ascending(S) ==
    CHOOSE s \in [1..Cardinality(S) -> S] :
        \A i, j \in 1..Cardinality(S) : i < j => s[i] < s[j]

Descending(S) == Reverse(Ascending(S))

(* The functions of the given direction for the given versions, in order. *)
Invocations(versions, type) == [i \in 1..Len(versions) |-> Row(versions[i], type)]

IsPrefix(s, t) == Len(s) <= Len(t) /\ SubSeq(t, 1, Len(s)) = s

(* A call has been made, and it read the current version. *)
Resolved == ncalls > 0 /\ last.faults \cap {"setup", "query"} = {}

(* Every statement, function and transaction operation of the call worked. *)
Clean == ncalls > 0 /\ last.faults = {}

(* No two of the newest rows of the version table bear the same second, so *)
(* a read of the current version has one possible result.                  *)
NoTies(d) == Cardinality(FirstRows(d.version)) <= 1

(* Every registered version is positive, as the registration contract has *)
(* it.                                                                     *)
PositiveVersions == \A v \in Versions : v > 0

(* C1: after a successful Down from version n >= 1, a read of the current  *)
(* version returns n - 1 (here: when the newest row is the only one of its *)
(* second).                                                                *)
C1_DownLeavesPreviousVersion ==
    (ncalls > 0 /\ last.op = "Down" /\ last.err = Nil /\ last.oldVersion >= 1 /\ NoTies(db))
        => CurrentVersions(db) = {last.oldVersion - 1}

(* C2: with steps 1, 2, 3 on a fresh database, every operation working and  *)
(* tx = true: Up returns (0, 3, nil) and invokes the up functions 1, 2, 3;  *)
(* then Down returns (3, 2, nil) and invokes the down function 3 only; then *)
(* ToVersion(1) returns (2, 1, nil) and invokes the down function 2 only.   *)
C2_Scenario ==
    /\ (Clean /\ ncalls = 1) =>
          /\ <<last.oldVersion, last.newVersion, last.err>> = <<0, 3, Nil>>
          /\ last.invoked = Invocations(<<1, 2, 3>>, migrationUp)
    /\ (Clean /\ ncalls = 2) =>
          /\ <<last.oldVersion, last.newVersion, last.err>> = <<3, 2, Nil>>
          /\ last.invoked = Invocations(<<3>>, migrationDown)
    /\ (Clean /\ ncalls = 3) =>
          /\ <<last.oldVersion, last.newVersion, last.err>> = <<2, 1, Nil>>
          /\ last.invoked = Invocations(<<2>>, migrationDown)

(* C3: after a successful ToVersion(target) to a version above or below the *)
(* old one, a read of the current version returns target (here: with       *)
(* positive versions only, the newest row the only one of its second).      *)
C3_ToVersionLeavesTarget ==
    (ncalls > 0 /\ last.op = "ToVersion" /\ last.err = Nil /\ last.v # last.oldVersion
        /\ NoTies(db) /\ PositiveVersions)
        => CurrentVersions(db) = {last.v}

(* C4: Down from version n >= 1 whose step is registered invokes no        *)
(* function but the down function of step n, and when everything works it  *)
(* invokes it and returns (n, n - 1, nil).                                  *)
C4_DownOneStep ==
    (Resolved /\ last.op = "Down" /\ last.oldVersion >= 1 /\ Registered(last.oldVersion))
        => /\ IsPrefix(last.invoked, Invocations(<<last.oldVersion>>, migrationDown))
           /\ Clean => /\ last.newVersion = last.oldVersion - 1
                       /\ last.err = Nil
                       /\ last.invoked = Invocations(<<last.oldVersion>>, migrationDown)

C4_Witness ==
    /\ Clean /\ last.op = "Down" /\ last.oldVersion = 3 /\ Registered(3)
    /\ last.newVersion = 2 /\ last.err = Nil /\ Len(last.invoked) = 1

(* C5 as claimed: Up from any version k, everything working, invokes the up *)
(* functions of the registered versions above k in ascending order and      *)
(* returns (k, m, nil), m the largest registered version (here: with some   *)
(* step registered and positive versions only).                             *)
C5_UpFromAnyVersion ==
    (Clean /\ last.op = "Up" /\ migrations # <<>> /\ PositiveVersions)
        => /\ last.invoked =
                Invocations(Ascending({v \in Versions : v > last.oldVersion}), migrationUp)
           /\ last.newVersion = Ascending(Versions)[Len(migrations)]
           /\ last.err = Nil

(* C5 amended: the same, for a version k below some registered version. *)
C5_UpFromBelowTop ==
    (Clean /\ last.op = "Up" /\ \E v \in Versions : v > last.oldVersion)
        => /\ last.invoked =
                Invocations(Ascending({v \in Versions : v > last.oldVersion}), migrationUp)
           /\ last.newVersion = Ascending(Versions)[Len(migrations)]
           /\ last.err = Nil
           /\ last.oldVersion \in CurrentVersions(last.before)

C5_Witness ==
    /\ Clean /\ last.op = "Up" /\ last.oldVersion = 0 /\ last.err = Nil
    /\ last.invoked = Invocations(<<1, 3>>, migrationUp) /\ last.newVersion = 3

(* C6: in a transaction, when a function fails and the rollback works, the  *)
(* call returns an error, and the version table and the rows the functions  *)
(* write are as they were before the call.                                  *)
C6_TxFailureLeavesNothing ==
    (ncalls > 0 /\ last.tx /\ "step" \in last.faults /\ "rollback" \notin last.faults)
        => /\ last.err # Nil
           /\ db.version = last.before.version
           /\ db.migrations_run = last.before.migrations_run

C6_Witness ==
    /\ ncalls > 0 /\ last.tx /\ last.faults = {"step"} /\ Len(last.invoked) = 2
    /\ last.err.kind = "rolledback"

(* C7: outside a transaction, when the k-th function fails, the rows of the *)
(* first k - 1 functions stay, the version table is as before the call, and *)
(* the error names the version of step k.                                   *)
C7_NoTxFailureKeepsPrefix ==
    (ncalls > 0 /\ ~last.tx /\ "step" \in last.faults)
        => LET k == Len(last.invoked)
           IN  /\ k >= 1
               /\ IsPrefix(last.before.migrations_run \o SubSeq(last.invoked, 1, k - 1),
                           db.migrations_run)
               /\ db.version = last.before.version
               /\ last.err.kind \in {"up", "down"}
               /\ last.err.version = last.invoked[k].version

C7_Witness ==
    /\ ncalls > 0 /\ ~last.tx /\ "step" \in last.faults /\ Len(last.invoked) = 2
    /\ Len(db.migrations_run) > Len(last.before.migrations_run)

(* C8: ToVersion(v) at current version v returns (v, v, nil), invokes no    *)
(* function, begins no transaction and writes no row, registered or not.    *)
C8_ToVersionSameVersion ==
    (Resolved /\ last.op = "ToVersion" /\ CurrentVersions(last.before) = {last.v})
        => /\ <<last.oldVersion, last.newVersion, last.err>> = <<last.v, last.v, Nil>>
           /\ last.invoked = <<>>
           /\ ~last.began
           /\ db.version = last.before.version
           /\ db.migrations_run = last.before.migrations_run

C8_Witness ==
    /\ Resolved /\ last.op = "ToVersion" /\ last.v = 2 /\ ~Registered(2)
    /\ CurrentVersions(last.before) = {2} /\ last.err = Nil

(* C9: ToVersion to a version that is neither the current one nor           *)
(* registered returns the not-found error, invokes no function and leaves   *)
(* the version table as it was.                                             *)
C9_ToVersionNotFound ==
    (Resolved /\ last.op = "ToVersion" /\ last.v \notin CurrentVersions(last.before)
        /\ ~Registered(last.v))
        => /\ last.err = Error("notfound", last.v, "nil")
           /\ last.invoked = <<>>
           /\ db.version = last.before.version

C9_Witness ==
    /\ Resolved /\ last.op = "ToVersion" /\ last.v = 2 /\ ~Registered(2)
    /\ Registered(1) /\ Registered(3) /\ CurrentVersions(last.before) = {0}
    /\ last.err.kind = "notfound"

(* C10: ToVersion to a registered target above the old version invokes the  *)
(* up functions of the registered versions in (old, target], ascending; to  *)
(* one below, the down functions of those in (target, old], descending; and *)
(* when it succeeds it returns (old, target, nil) (here: with positive      *)
(* versions only).                                                          *)
C10_ToVersionDirection ==
    (Clean /\ last.op = "ToVersion" /\ Registered(last.v) /\ last.v # last.oldVersion
        /\ PositiveVersions)
        => /\ last.v > last.oldVersion =>
                last.invoked = Invocations(
                    Ascending({v \in Versions : v > last.oldVersion /\ v <= last.v}),
                    migrationUp)
           /\ last.v < last.oldVersion =>
                last.invoked = Invocations(
                    Descending({v \in Versions : v > last.v /\ v <= last.oldVersion}),
                    migrationDown)
           /\ last.err = Nil => last.newVersion = last.v

----------------------------------------------------------------------------
(* File names, read independently of versionFromFile. *)

RECURSIVE Pow10(_)
Pow10(n) == IF n = 0 THEN 1 ELSE 10 * Pow10(n - 1)

(* The value of a string of decimal digits, most significant digit first. *)
RECURSIVE DecimalValue(_)
DecimalValue(s) ==
    IF s = <<>> THEN 0
    ELSE DigitVal(s[1]) * Pow10(Len(s) - 1) + DecimalValue(Tail(s))

UnsignedNumber(s) == s # <<>> /\ \A i \in 1..Len(s) : IsDigit(s[i])

SignedNumber(s) ==
    \/ UnsignedNumber(s)
    \/ Len(s) > 1 /\ s[1] \in {"+", "-"} /\ UnsignedNumber(Tail(s))

SignedValue(s) ==
    IF s[1] = "-" THEN 0 - DecimalValue(Tail(s))
    ELSE IF s[1] = "+" THEN DecimalValue(Tail(s))
    ELSE DecimalValue(s)

(* The part of a name before its first underscore; the whole name if it    *)
(* has none.                                                               *)
NumberPart(file) ==
    LET k == Cardinality({i \in 1..Len(file) : \A j \in 1..i : file[j] # "_"})
    IN  SubSeq(file, 1, k)

HasUnderscore(file) == \E i \in 1..Len(file) : file[i] = "_"

EndsInGo(file) ==
    Len(file) >= 3 /\ file[Len(file) - 2] = "." /\ file[Len(file) - 1] = "g"
                   /\ file[Len(file)] = "o"

(* NUMBER_NAME.go, NUMBER a non-negative integer written in digits. *)
IsNumberNameGo(file) ==
    EndsInGo(file) /\ HasUnderscore(file) /\ UnsignedNumber(NumberPart(file))

(* NUMBER_NAME.go, NUMBER a decimal integer with an optional sign. *)
IsSignedNumberNameGo(file) ==
    EndsInGo(file) /\ HasUnderscore(file) /\ SignedNumber(NumberPart(file))

(* The name of the file a path leads to. *)
FileName(path) ==
    LET k == Cardinality({i \in 1..Len(path) : \E j \in i..Len(path) : path[j] = "/"})
    IN  SubSeq(path, k + 1, Len(path))

(* The last Register call, the name of its file and the number in it. *)
RegisterFile == FileName(lastRegister.caller)

RegisterNumber == SignedValue(NumberPart(RegisterFile))

RegisterRefused == lastRegister.panicked /\ migrations = lastRegister.before

RegisterAppended ==
    /\ ~lastRegister.panicked
    /\ Len(migrations) = Len(lastRegister.before) + 1
    /\ SubSeq(migrations, 1, Len(lastRegister.before)) = lastRegister.before
    /\ migrations[Len(migrations)].version = RegisterNumber
    /\ migrations[Len(migrations)].up = lastRegister.up
    /\ migrations[Len(migrations)].down = lastRegister.down

(* C11: a Register call whose file carries version 0 or a negative version *)
(* panics and adds no step, so that every step of the registry has a       *)
(* positive version.                                                       *)
C11_RegisteredVersionsPositive ==
    /\ \A i \in 1..Len(migrations) : migrations[i].version > 0
    /\ (lastRegister.called /\ IsSignedNumberNameGo(RegisterFile) /\ RegisterNumber <= 0)
           => RegisterRefused

(* C12: a Register call whose version is already in the registry panics    *)
(* and adds nothing, so that no two steps of the registry share a version. *)
C12_NoDuplicateVersions ==
    /\ \A i, j \in 1..Len(migrations) :
           i # j => migrations[i].version # migrations[j].version
    /\ (/\ lastRegister.called
        /\ IsSignedNumberNameGo(RegisterFile)
        /\ \E i \in 1..Len(lastRegister.before) :
               lastRegister.before[i].version = RegisterNumber)
           => RegisterRefused

C12_Witness ==
    /\ lastRegister.called
    /\ lastRegister.up = SomeFunc /\ lastRegister.down = SomeFunc
    /\ IsNumberNameGo(RegisterFile)
    /\ \E i \in 1..Len(lastRegister.before) :
           lastRegister.before[i].version = RegisterNumber
    /\ RegisterRefused
    /\ Len(migrations) = 2

C14_CurrentVersionIsLastSet ==
    (ncalls > 0 /\ last.op = "SetVersion" /\ last.err = Nil)
        => CurrentVersions(db) = {last.v}

(* C15: generateMigrations(3) registered and the database fresh; Up       *)
(* reaches version 3, Down and ToVersion(1) move the database down to      *)
(* version 1, each without error; the Up that follows returns without      *)
(* error, invokes the up actions of exactly the steps above 1, versions 2  *)
(* and 3 in that order, and leaves the current version at 3.  The last     *)
(* record before that Up is the only one of its second.                    *)
C15_UpAfterDown ==
    (ncalls = 4 /\ last.faults = {} /\ NoTies(last.before))
        => /\ last.err = Nil
           /\ last.invoked = Invocations(<<2, 3>>, migrationUp)
           /\ CurrentVersions(db) = {3}

(* C16: an Up call with no registered version above the current one, and  *)
(* a Down call with no registered version equal to the current one (Up at  *)
(* the highest version, Down at version 0 of a registry of positive        *)
(* versions, either with an empty registry), returns an error, invokes no  *)
(* action, begins no transaction and appends no version record.            *)
C16_EmptyPendingIsError ==
    (/\ Resolved
     /\ \/ last.op = "Up" /\ \A v \in Versions : v <= last.oldVersion
        \/ last.op = "Down" /\ last.oldVersion \notin Versions)
        => /\ last.err # Nil
           /\ last.invoked = <<>>
           /\ ~last.began
           /\ db.version = last.before.version
           /\ db.migrations_run = last.before.migrations_run

C16_Witness ==
    /\ Resolved
    /\ last.op = "Up"
    /\ last.tx
    /\ migrations # <<>>
    /\ last.oldVersion > 0
    /\ \A v \in Versions : v <= last.oldVersion
    /\ last.err = Error("nowork", 0, "nil")

(* C17: the version table is an append-only log.  Whatever a call of Up,   *)
(* Down, ToVersion, SetVersion or CurrentVersion does, the records that    *)
(* were in the table before it are still there, unchanged and in place,    *)
(* with at most one record after them; an Up, a Down, a ToVersion to a     *)
(* version other than the current one and a SetVersion that return without *)
(* error add exactly one record, CurrentVersion and a ToVersion to the     *)
(* current version add none.                                               *)
C17_VersionLogAppendOnly ==
    ncalls > 0 =>
        /\ IsPrefix(last.before.version, db.version)
        /\ Len(db.version) <= Len(last.before.version) + 1
        /\ (/\ last.err = Nil
            /\ \/ last.op \in {"Up", "Down", "SetVersion"}
               \/ last.op = "ToVersion" /\ last.oldVersion # last.v)
               => Len(db.version) = Len(last.before.version) + 1
        /\ (\/ last.op = "CurrentVersion"
            \/ last.op = "ToVersion" /\ last.err = Nil /\ last.oldVersion = last.v)
               => db.version = last.before.version

C17_Witness ==
    /\ ncalls > 0
    /\ last.op = "Down"
    /\ last.err = Nil
    /\ last.before.version # <<>>
    /\ IsPrefix(last.before.version, db.version)
    /\ Len(db.version) = Len(last.before.version) + 1
    /\ db.version[Len(db.version)].updated_at > last.before.version[1].updated_at

(* The largest version among the migration files NUMBER_NAME.go of a      *)
(* directory, 0 if it holds none.                                          *)
MaxFileVersion(files) ==
    LET versions == {DecimalValue(NumberPart(f)) : f \in {g \in files : IsNumberNameGo(g)}}
    IN  IF versions = {} THEN 0 ELSE CHOOSE v \in versions : \A w \in versions : w <= v

(* n < 10000 in four digits. *)
FourDigits(n) ==
    <<Digits[((n \div 1000) % 10) + 1], Digits[((n \div 100) % 10) + 1],
      Digits[((n \div 10) % 10) + 1], Digits[(n % 10) + 1]>>

(* C18: a Create call that succeeds on a directory whose migration files   *)
(* have the largest version m (0 if there are none) returns the name       *)
(* made of m + 1 in four digits, an underscore, the given name and .go,    *)
(* which is the name of no file the directory held: Create overwrites no   *)
(* migration file.                                                         *)
C18_CreateNextVersion ==
    (lastCreate.calls > 0 /\ lastCreate.err = Nil)
        => /\ lastCreate.filename =
                  FourDigits(MaxFileVersion(lastCreate.before) + 1)
                      \o <<"_">> \o lastCreate.name \o <<".", "g", "o">>
           /\ lastCreate.filename \notin lastCreate.before

(* C19, as stated: versionFromFile accepts exactly the names               *)
(* NUMBER_NAME.go in which NUMBER is a non-negative integer written in     *)
(* digits, leading zeros allowed, and returns the value of NUMBER; it      *)
(* rejects every other name, among them those with a signed NUMBER.        *)
C19_AcceptsUnsignedOnly ==
    parsed.called =>
        /\ parsed.ok <=> IsNumberNameGo(arg)
        /\ parsed.ok => parsed.v = DecimalValue(NumberPart(arg))

(* C19, amended: versionFromFile accepts exactly the names NUMBER_NAME.go  *)
(* in which NUMBER is a decimal integer, leading zeros and a + or - sign   *)
(* allowed, and returns the value of NUMBER, negative under a - sign; it   *)
(* rejects every other name.                                               *)
C19_AcceptsSigned ==
    parsed.called =>
        /\ parsed.ok <=> IsSignedNumberNameGo(arg)
        /\ parsed.ok => parsed.v = SignedValue(NumberPart(arg))

C19_Witness ==
    /\ parsed.called
    /\ parsed.ok
    /\ parsed.v = 0 - 17
    /\ arg = <<"-", "1", "7", "_", "a", "_", "1", ".", "g", "o">>

(* The steps a call has pending, in the order it runs them: what the      *)
(* registry holds between the version the call read and its target.        *)
PendingVersions ==
    IF last.op = "Up" THEN Ascending({v \in Versions : v > last.oldVersion})
    ELSE IF last.op = "Down"
    THEN Descending({v \in Versions : v <= last.oldVersion /\ v > last.oldVersion - 1})
    ELSE IF last.v > last.oldVersion
    THEN Ascending({v \in Versions : v > last.oldVersion /\ v <= last.v})
    ELSE Descending({v \in Versions : v <= last.oldVersion /\ v > last.v})

(* C20: with or without a transaction, when the action of a step fails in *)
(* an Up, Down or ToVersion call the batch stops there: the actions        *)
(* invoked are the pending ones up to the step the error names and none    *)
(* after it, and SetVersion is not called, so the version table holds what *)
(* it held before the call.                                                *)
C20_FailureStopsBatch ==
    (ncalls > 0 /\ "step" \in last.faults)
        => /\ last.err # Nil
           /\ last.invoked # <<>>
           /\ IsPrefix(last.invoked,
                       Invocations(PendingVersions,
                                   last.invoked[1].migration_type))
           /\ last.err.kind # "rollback"
                  => last.err.version = last.invoked[Len(last.invoked)].version
           /\ db.version = last.before.version

C20_Witness ==
    /\ ncalls > 0
    /\ "step" \in last.faults
    /\ ~last.tx
    /\ last.op = "ToVersion"
    /\ Len(last.invoked) = 1
    /\ Len(PendingVersions) > 1
    /\ last.invoked[1].migration_type = migrationDown
    /\ db.version = last.before.version

(* C21, as stated: when the action of a step fails after at least one     *)
(* other action of the batch has succeeded, the new version returned with  *)
(* the error is the frontier reached before the failure: going up, the     *)
(* version of the step that succeeded last; going down, the version the    *)
(* database was brought down to, that of the step that failed.             *)
C21_ReturnsFrontier ==
    (ncalls > 0 /\ "step" \in last.faults /\ Len(last.invoked) >= 2)
        => IF last.invoked[1].migration_type = migrationUp
           THEN last.newVersion = last.invoked[Len(last.invoked) - 1].version
           ELSE last.newVersion = last.invoked[Len(last.invoked)].version

(* C21, amended: when the action of a step fails, the new version returned *)
(* with the error is the version attempted: going up, the version of the   *)
(* step whose action failed; going down, that version less one.            *)
C21_ReturnsAttempted ==
    (ncalls > 0 /\ "step" \in last.faults)
        => IF last.invoked[1].migration_type = migrationUp
           THEN last.newVersion = last.invoked[Len(last.invoked)].version
           ELSE last.newVersion = last.invoked[Len(last.invoked)].version - 1

C21_Witness ==
    /\ ncalls > 0
    /\ "step" \in last.faults
    /\ last.op = "Up"
    /\ ~last.tx
    /\ Len(last.invoked) >= 2
    /\ last.newVersion = last.invoked[Len(last.invoked)].version
    /\ last.newVersion # last.invoked[Len(last.invoked) - 1].version

(* An Up, Down or ToVersion call. *)
Migrating == ncalls > 0 /\ last.op \in {"Up", "Down", "ToVersion"}

(* What a call that ran its whole batch and recorded the version leaves:   *)
(* every pending action invoked, in order, their effects in the database,  *)
(* and one more version record.                                            *)
BatchDone ==
    /\ last.invoked # <<>>
    /\ last.invoked = Invocations(PendingVersions, last.invoked[1].migration_type)
    /\ db.migrations_run = last.before.migrations_run \o last.invoked
    /\ IsPrefix(last.before.version, db.version)
    /\ Len(db.version) = Len(last.before.version) + 1
    /\ last.tx => last.began

(* C22, as stated: an Up, Down or ToVersion call returns a nil error only  *)
(* if every pending action succeeded and the version record was written    *)
(* (in a transaction that was committed, when one is asked for); a call in *)
(* which the version write or the commit fails returns an error.           *)
C22_NilOnlyWhenRecorded ==
    Migrating =>
        /\ last.err = Nil => BatchDone
        /\ last.faults \cap {"setversion", "commit"} # {} => last.err # Nil

(* C22, amended: the same of every call but a ToVersion to the current     *)
(* version, which returns a nil error and has nothing to run or to write.  *)
C22_NilOnlyWhenRecordedOrNoop ==
    Migrating =>
        /\ (last.err = Nil /\ ~(last.op = "ToVersion" /\ last.oldVersion = last.v))
               => BatchDone
        /\ last.faults \cap {"setversion", "commit"} # {} => last.err # Nil

C22_Witness ==
    /\ Migrating
    /\ last.tx
    /\ "commit" \in last.faults
    /\ last.err = Error("commit", 0, "driver")
    /\ Len(last.invoked) >= 2
    /\ db.version = last.before.version

(* C23: in a transaction, when the action of a step fails and the         *)
(* rollback fails too, the error returned is that of the rollback: it      *)
(* neither wraps the error of the step nor names its version; when the     *)
(* rollback succeeds, the error returned wraps the error of the step,      *)
(* which names the version of the step that failed.                        *)
C23_RollbackErrorSupersedes ==
    (Migrating /\ last.tx /\ "step" \in last.faults)
        => IF "rollback" \in last.faults
           THEN last.err = Error("rollback", 0, "driver")
           ELSE /\ last.err.kind = "rolledback"
                /\ last.err.cause \in {"up", "down"}
                /\ last.err.version = last.invoked[Len(last.invoked)].version

C23_Witness ==
    /\ Migrating
    /\ last.tx
    /\ last.faults = {"step", "rollback"}
    /\ Len(last.invoked) >= 2
    /\ last.err = Error("rollback", 0, "driver")

(* C24, as stated: whatever an Up, Down or ToVersion call that read the    *)
(* current version returns (success, not found, nothing to run, a failed   *)
(* step, a failed transaction), its old version is the version it read.    *)
C24_OldVersionIsResolved ==
    (Migrating /\ Resolved /\ NoTies(last.before))
        => CurrentVersions(last.before) = {last.oldVersion}

(* C24, amended: the same, except that a ToVersion call to a version that  *)
(* is not registered returns 0 as its old version.                         *)
C24_OldVersionUnlessNotFound ==
    (Migrating /\ Resolved /\ NoTies(last.before))
        => IF last.err.kind = "notfound"
           THEN last.oldVersion = 0
           ELSE CurrentVersions(last.before) = {last.oldVersion}

C24_Witness ==
    /\ Migrating
    /\ Resolved
    /\ NoTies(last.before)
    /\ last.op = "Up"
    /\ last.err # Nil
    /\ last.oldVersion > 0
    /\ CurrentVersions(last.before) = {last.oldVersion}

(* C25: an Up, Down or ToVersion call in which reading the current        *)
(* version fails, at the creation of the table or at the query, returns    *)
(* that error, invokes no action, begins no transaction and appends no     *)
(* version record.                                                         *)
C25_ReadErrorStopsCall ==
    (Migrating /\ last.faults \cap {"setup", "query"} # {})
        => /\ \/ last.err = Error("setup", 0, "nil")
              \/ last.err = Error("query", 0, "nil")
           /\ last.err.kind \in last.faults
           /\ last.invoked = <<>>
           /\ ~last.began
           /\ db.version = last.before.version
           /\ db.migrations_run = last.before.migrations_run

C25_Witness ==
    /\ Migrating
    /\ last.op = "Down"
    /\ last.tx
    /\ "query" \in last.faults
    /\ last.err = Error("query", 0, "nil")
    /\ last.before.version # <<>>
    /\ migrations # <<>>

(* C26: an Up without a transaction has failed at a step, and Up is       *)
(* called again.  The second call reads the old version the first read     *)
(* and has the same steps pending: it invokes again, from the first, the   *)
(* up actions the first call invoked, those that succeeded included, as    *)
(* far as it gets, and all of them when none of its own fails.             *)
C26_RetryRepeatsBatch ==
    (/\ ncalls = 2
     /\ prev.op = "Up" /\ ~prev.tx /\ "step" \in prev.faults
     /\ last.op = "Up" /\ Resolved)
        => /\ last.oldVersion = prev.oldVersion
           /\ IsPrefix(last.invoked, prev.invoked) \/ IsPrefix(prev.invoked, last.invoked)
           /\ last.faults \cap {"step", "begin"} = {} => IsPrefix(prev.invoked, last.invoked)
           /\ last.invoked # <<>>
           /\ last.invoked[1] = prev.invoked[1]

C26_Witness ==
    /\ ncalls = 2
    /\ prev.op = "Up" /\ ~prev.tx /\ "step" \in prev.faults
    /\ Len(prev.invoked) = 3
    /\ last.op = "Up" /\ last.err = Nil
    /\ last.oldVersion = prev.oldVersion
    /\ last.invoked = prev.invoked
    /\ Len(db.migrations_run) >= 5

(* A CurrentVersion call that returned without error. *)
ReadDone(call) == call.op = "CurrentVersion" /\ call.err = Nil

(* C27: CurrentVersion on a database without version records returns 0    *)
(* and no error, and leaves the version table in place, created if it was  *)
(* absent and still without records; no CurrentVersion call adds a record, *)
(* and called again on such a database it returns what it returned before. *)
C27_CurrentVersionOfEmptyTable ==
    /\ (ncalls > 0 /\ last.op = "CurrentVersion")
           => db.version = last.before.version
    /\ (ncalls > 0 /\ last.op = "CurrentVersion" /\ last.faults = {}
           /\ last.before.version = <<>>)
           => /\ last.err = Nil
              /\ last.newVersion = 0
              /\ db.exists
    /\ (ncalls > 1 /\ ReadDone(last) /\ ReadDone(prev) /\ prev.before.version = <<>>)
           => /\ last.newVersion = prev.newVersion
              /\ db.version = <<>>

C27_Witness ==
    /\ ncalls > 1
    /\ ReadDone(last)
    /\ ReadDone(prev)
    /\ ~prev.before.exists
    /\ last.before.exists
    /\ last.newVersion = 0
    /\ db.version = <<>>

(* C28: sortedMigrations is the registry in ascending order of version,   *)
(* step for step; the registry itself stays in the order of registration   *)
(* whatever is called; and the actions a call invokes are those of the     *)
(* pending versions in the order of the versions, whatever the order the   *)
(* steps were registered in.                                               *)
C28_OrderByVersionOnly ==
    /\ Len(sortedMigrations) = Len(migrations)
    /\ \A i \in 1..Len(migrations) :
           Cardinality({j \in 1..Len(migrations) : sortedMigrations[j] = migrations[i]})
               = Cardinality({j \in 1..Len(migrations) : migrations[j] = migrations[i]})
    /\ \A i, j \in 1..Len(sortedMigrations) :
           i < j => sortedMigrations[i].version <= sortedMigrations[j].version
    /\ (ncalls > 0 /\ lastRegister.called) => RegisterAppended
    /\ (Migrating /\ last.invoked # <<>>)
           => IsPrefix(last.invoked,
                       Invocations(PendingVersions, last.invoked[1].migration_type))

C28_Witness ==
    /\ Migrating
    /\ last.op = "Up"
    /\ last.err = Nil
    /\ Len(migrations) = 2
    /\ PositiveVersions
    /\ migrations[1].version > migrations[2].version
    /\ Len(last.invoked) = 2
    /\ last.invoked[1].version = migrations[2].version
    /\ last.invoked[2].version = migrations[1].version

(* C29: two Up calls in a transaction each run at the same time, and both *)
(* read the current version before either writes.  Then both start from    *)
(* the same old version; and when neither meets a failure, each invokes    *)
(* the up actions of the same steps, so that every one of them runs        *)
(* twice, and each appends a version record.                               *)
C29_ConcurrentUpsRepeat ==
    (/\ \A p \in Runners : runners[p].pc = "done" /\ runners[p].faults = {}
     /\ runners[1].seen = runners[2].seen
     /\ Cardinality(FirstRows(runners[1].seen)) <= 1)
        => /\ runners[1].oldVersion = runners[2].oldVersion
           /\ runners[1].invoked = runners[2].invoked
           /\ runners[1].err = runners[2].err
           /\ runners[1].err = Nil
                  => /\ runners[1].began /\ runners[2].began
                     /\ runners[1].invoked # <<>>
                     /\ db.migrations_run = runners[1].invoked \o runners[2].invoked
                     /\ Len(db.version) = Len(runners[1].seen) + 2

C29_Witness ==
    /\ \A p \in Runners : runners[p].pc = "done" /\ runners[p].err = Nil
    /\ runners[1].seen = runners[2].seen
    /\ runners[1].oldVersion = 1
    /\ runners[2].oldVersion = 1
    /\ runners[1].invoked = Invocations(<<2, 3>>, migrationUp)
    /\ runners[2].invoked = Invocations(<<2, 3>>, migrationUp)
    /\ Len(db.version) = 3

(* The database after the first n statements of a call have taken effect. *)
RECURSIVE AfterFirst(_, _, _, _)
AfterFirst(d, op, s, n) ==
    IF n = 0 THEN d
    ELSE LET e == AfterFirst(d, op, s, n - 1)
         IN  IF op = "ExecAll" THEN [e EXCEPT !.migrations_run = @ \o <<s[n]>>]
             ELSE IF s[n] = "version" THEN [e EXCEPT !.exists = FALSE, !.version = <<>>]
             ELSE [e EXCEPT !.migrations_run = <<>>]

(* C30: ExecAll, and DropAll alike, gives db.Exec the statements it is     *)
(* given in the order given.  When none fails it has executed them all and *)
(* returns nil; when one fails it returns the error of that statement,     *)
(* the statements before it have taken effect, and it and those after it   *)
(* have not.  It returns nil in no other case.                             *)
C30_ExecAllStopsAtFailure ==
    (ncalls > 0 /\ last.op \in {"ExecAll", "DropAll"})
        => /\ IsPrefix(last.invoked, last.v)
           /\ last.err = Nil <=> last.faults = {}
           /\ last.err = Nil
                  => /\ last.invoked = last.v
                     /\ db = AfterFirst(last.before, last.op, last.v, Len(last.v))
           /\ last.err # Nil
                  => /\ last.invoked # <<>>
                     /\ last.err = ExecError(Len(last.invoked))
                     /\ db = AfterFirst(last.before, last.op, last.v,
                                        Len(last.invoked) - 1)

C30_Witness ==
    /\ ncalls > 0
    /\ last.op = "ExecAll"
    /\ Len(last.v) = 3
    /\ last.err = ExecError(2)
    /\ last.invoked = SubSeq(last.v, 1, 2)
    /\ db.migrations_run = last.before.migrations_run \o <<last.v[1]>>

(* The steps whose up effect is in place: those whose newest row in the    *)
(* log of the migration functions is the row of their up function.         *)
InPlace(log) ==
    {v \in {log[i].version : i \in 1..Len(log)} :
        LET newest == CHOOSE i \in 1..Len(log) :
                         /\ log[i].version = v
                         /\ \A j \in 1..Len(log) : log[j].version = v => j <= i
        IN  log[newest].migration_type = migrationUp}

(* C31: after Up, Down and ToVersion calls made in a transaction on a      *)
(* fresh database, each of which worked or was rolled back, the steps      *)
(* whose up effect is in place are exactly the registered steps whose      *)
(* version is at most the current version (here: the newest version record *)
(* being the only one of its second).                                      *)
C31_EffectsMatchVersion ==
    NoTies(db)
        => \A current \in CurrentVersions(db) :
              InPlace(db.migrations_run) = {v \in Versions : v <= current}

(* C32: with steps 1..n registered, the database at version n >= 1 and    *)
(* every operation working, each Down leaves a current version below the   *)
(* one it found, no two Downs in a row invoke the same down action, and a  *)
(* Down that finds version 0 fails with the no-work error (here: the       *)
(* newest version record being the only one of its second).                *)
C32_DownsReachZero ==
    (Clean /\ last.op = "Down" /\ NoTies(last.before) /\ NoTies(db))
        => /\ last.oldVersion >= 1
              => /\ last.err = Nil
                 /\ \A current \in CurrentVersions(db) : current < last.oldVersion
                 /\ (prev.op = "Down" /\ prev.err = Nil) => prev.invoked # last.invoked
           /\ last.oldVersion = 0
              => /\ last.err = Error("nowork", 0, "nil")
                 /\ last.invoked = <<>>

(* C33: a call made in a transaction is all or nothing.  Unless Rollback  *)
(* itself fails, a call whose version write or whose Commit fails returns  *)
(* an error and leaves the rows of the migration functions and the version *)
(* table as they were; and after any such call the functions' rows have    *)
(* changed exactly when a version record has been added.                   *)
C33_TxAllOrNothing ==
    (Migrating /\ last.tx /\ "rollback" \notin last.faults)
        => /\ last.faults \cap {"setversion", "commit"} # {}
                 => /\ last.err # Nil
                    /\ db.migrations_run = last.before.migrations_run
                    /\ db.version = last.before.version
           /\ db.migrations_run # last.before.migrations_run
                 <=> db.version # last.before.version

C33_Witness ==
    /\ Migrating /\ last.tx
    /\ last.faults = {"commit"}
    /\ Len(last.invoked) = 2
    /\ last.err = Error("commit", 0, "driver")
    /\ db = last.before

(* The version records the last call added to the version table. *)
Written == SubSeq(db.version, Len(last.before.version) + 1, Len(db.version))

(* C34: no Up, Down or ToVersion call returns a negative new version, and  *)
(* a call that returns without error returns the version of the record it  *)
(* wrote (here: every registered version being positive).                  *)
C34_NewVersionIsWritten ==
    (Migrating /\ PositiveVersions)
        => /\ last.newVersion >= 0
           /\ last.err = Nil
                 => \A i \in 1..Len(Written) : Written[i].version = last.newVersion

====
